---- MODULE Spec2Model ----
(***************************************************************************)
(* A model of kombat-indexed-db: the durable message log / latest-value    *)
(* index (LocalIndexedDB), its change listeners, the two dataset           *)
(* projectors (syncDatasetMem, syncDatasetIndexedDB) and the proxy based    *)
(* store (DBProxy, DatasetProxy, RowProxy, TheStore).                       *)
(*                                                                         *)
(* Timestamps are strings compared with <; they are modelled as the        *)
(* integers 1..MaxTs with 0 standing for the empty string.  IndexedDB runs *)
(* the requests of one transaction in the order they were placed and       *)
(* returns their results in that order; transactions whose scopes overlap  *)
(* (one of them readwrite) do not run at the same time.                    *)
(***************************************************************************)
EXTENDS Integers, Sequences, FiniteSets, TLC

VARIABLES
  (* LocalIndexedDB: the durable store *)
  log,              \* message_log: timestamp -> message (keyPath 'timestamp')
  latest,           \* message_latest: "dataset:row:column" -> message
  tx,               \* the running storeMessages transaction
  op,               \* history: the last completed operation and what it returned
  (* LocalIndexedDB: change listeners *)
  changeListeners,  \* #changeListeners
  regs,             \* the unsubscribe functions listenChanges has returned
  deliv,            \* the running applyChanges call (forEach over the listeners)
  lop,              \* history: the last listener operation
  (* the projectors *)
  memRows,          \* the object handed to syncDatasetMem
  idbRows,          \* the dataset object stores written by syncDatasetIndexedDB
  idbQueue,         \* transactions of syncDatasetIndexedDB not yet run
  pop,              \* history: the last projector operation
  (* the store *)
  mem,              \* TheStore.mem
  datasetProxies,   \* TheStore.#datasetProxies
  rowProxies,       \* the RowProxy objects DatasetProxy.get has returned
  applied,          \* the sends whose batch applyChanges has delivered
  rejected,         \* the sends whose promise has rejected
  stored,           \* the sends whose messages storeMessages has ingested
  settle,           \* the running TheStore.settle call
  written,          \* history: each row as its last accessor write left it, and
                    \* the kinds of the last accessor writes to it
  sent,             \* the batches handed to TheStore.send, in order
  pending,          \* TheStore.#pending (indices into sent)
  sop,              \* history: the last accessor operation
  (* LocalIndexedDB: the metadata table *)
  meta,             \* message_meta: key -> value
  metaSets,         \* history: the completed set(key, value) calls, in order
  mop,              \* history: the last metadata operation
  (* LocalIndexedDB: the schema *)
  objectStoreNames, \* db.objectStoreNames of the database being opened
  up                \* the open / upgrade in progress and what upgradeDB did

logVars    == <<log, latest, tx, op>>
listenVars == <<changeListeners, regs, deliv, lop>>
projVars   == <<memRows, idbRows, idbQueue, pop>>
storeVars  == <<mem, datasetProxies, rowProxies, sent, pending, sop, applied, settle,
                written, rejected, stored>>
metaVars   == <<meta, metaSets, mop>>
upVars     == <<objectStoreNames, up>>
vars == <<log, latest, tx, op,
          changeListeners, regs, deliv, lop,
          memRows, idbRows, idbQueue, pop,
          mem, datasetProxies, rowProxies, sent, pending, sop, applied, settle, written,
          rejected, stored, meta, metaSets, mop, objectStoreNames, up>>

(***************************************************************************)
(* Bounds                                                                  *)
(***************************************************************************)
MaxTs == 2
MaxBatch == 2
MaxRegs == 3
MaxQueue == 2
MaxSends == 2
MaxPipeSends == 3
MaxMetaSets == 3
MaxUpgrades == 2

EmptyFn == [x \in {} |-> x]

Max(S) == CHOOSE x \in S : \A y \in S : y <= x

Range(s) == {s[i] : i \in DOMAIN s}

SeqsUpTo(S, n) == UNION {[1..k -> S] : k \in 0..n}

(***************************************************************************)
(* Messages                                                                *)
(***************************************************************************)
LogCells ==
  { [dataset |-> "people", row |-> "123", column |-> "name"],
    [dataset |-> "people", row |-> "123", column |-> "age"] }

LogValues == {"Yoda"}

Msg(t, c, v) ==
  [timestamp |-> t, dataset |-> c.dataset, row |-> c.row,
   column |-> c.column, value |-> v]

LogMsgs == {Msg(t, c, v) : t \in 1..MaxTs, c \in LogCells, v \in LogValues}

\* the value a get() yields when the key has no entry (undefined)
Absent == [timestamp |-> 0, dataset |-> "", row |-> "", column |-> "", value |-> ""]

CellOf(m) == [dataset |-> m.dataset, row |-> m.row, column |-> m.column]

latestMessageKey(msg) == msg.dataset \o ":" \o msg.row \o ":" \o msg.column

(***************************************************************************)
(* The object stores                                                       *)
(***************************************************************************)
LogStore == "message_log"
LatestStore == "message_latest"

\* the scope storeMessages opens its readwrite transaction with
StoreMessagesScope_logOnly == {LogStore}
StoreMessagesScope == {LogStore, LatestStore}

StoreGet(store, key) == IF key \in DOMAIN store THEN store[key] ELSE Absent

StorePut(store, key, value) == (key :> value) @@ store

NoSingle == [set |-> FALSE]

NoTx == [phase |-> "none", batch |-> <<>>, absent |-> <<>>,
         snapLog |-> EmptyFn, snapLatest |-> EmptyFn, prev |-> NoSingle]

Idle == [name |-> "idle", ok |-> TRUE, batch |-> <<>>, since |-> 0,
         stored |-> <<>>, msgs |-> <<>>, preLog |-> EmptyFn,
         preLatest |-> EmptyFn, comLog |-> EmptyFn, comLatest |-> EmptyFn,
         wrote |-> FALSE,
         single |-> NoSingle, prevSingle |-> NoSingle]

\* what the last committed state of the two stores is: a running transaction's
\* writes are not committed yet
CommittedLog == IF tx.phase = "none" THEN log ELSE tx.snapLog
CommittedLatest == IF tx.phase = "none" THEN latest ELSE tx.snapLatest

\* a transaction over the stores in scope may run now
CanRun(scope) == tx.phase = "none" \/ scope \cap StoreMessagesScope = {}

LogInit ==
  /\ log = EmptyFn
  /\ latest = EmptyFn
  /\ tx = NoTx
  /\ op = Idle

(***************************************************************************)
(* LocalIndexedDB.storeMessages: one readwrite transaction over the log    *)
(* and the latest index.  Promise.all(messages.map(async ...)) runs every  *)
(* callback up to its first await, so the transaction receives all         *)
(* messageLogStore.get requests first; the puts into the log are placed as *)
(* the gets return, the gets of the latest index as the puts return, and   *)
(* the puts into the latest index as those gets return.                    *)
(***************************************************************************)
\* !row for every message: the log gets all precede the first put
LogAbsent_noCheck(l, batch) == [i \in 1..Len(batch) |-> TRUE]
LogAbsent(l, batch) ==
  [i \in 1..Len(batch) |-> batch[i].timestamp \notin DOMAIN l]

RECURSIVE LogPuts(_, _, _, _)
LogPuts(l, batch, absent, i) ==
  IF i > Len(batch) THEN l
  ELSE LogPuts(IF absent[i] THEN StorePut(l, batch[i].timestamp, batch[i]) ELSE l,
               batch, absent, i + 1)

\* existingLatest for every message: the latest gets all precede the first put
LatestExisting(lt, batch) ==
  [i \in 1..Len(batch) |-> StoreGet(lt, latestMessageKey(batch[i]))]

\* !existingLatest || existingLatest.timestamp < msg.timestamp
ShouldReplace(existing, msg) ==
  existing = Absent \/ existing.timestamp < msg.timestamp

RECURSIVE LatestPuts(_, _, _, _, _)
LatestPuts(lt, batch, absent, existing, i) ==
  IF i > Len(batch) THEN lt
  ELSE LatestPuts(IF absent[i] /\ ShouldReplace(existing[i], batch[i])
                    THEN StorePut(lt, latestMessageKey(batch[i]), batch[i])
                    ELSE lt,
                  batch, absent, existing, i + 1)

LogBatches == SeqsUpTo(LogMsgs, MaxBatch)

\* the probes of queryLatestMessages are messages too; their timestamp is one
\* the index may or may not hold and their value is any
Probes == SeqsUpTo({m \in LogMsgs : m.timestamp = MaxTs}, MaxBatch)

otherThanLog == <<listenVars, projVars, storeVars, metaVars, upVars>>

\* db.transaction([log, latest], 'readwrite') starts; the log gets are placed
StoreBegin(batch) ==
  /\ tx.phase = "none"
  /\ tx' = [phase |-> "begun", batch |-> batch, absent |-> <<>>,
            snapLog |-> log, snapLatest |-> latest, prev |-> op.single]
  /\ op' = Idle
  /\ UNCHANGED <<log, latest>>
  /\ UNCHANGED otherThanLog

\* the log gets return; messageLogStore.put(msg) for every message not found
StoreLogPuts ==
  /\ tx.phase = "begun"
  /\ LET absent == LogAbsent(log, tx.batch) IN
       /\ log' = LogPuts(log, tx.batch, absent, 1)
       /\ tx' = [tx EXCEPT !.phase = "logPut", !.absent = absent]
  /\ UNCHANGED <<latest, op>>
  /\ UNCHANGED otherThanLog

\* the log puts return; latestMessageStore.get(key), then put where newer
StoreLatestPuts ==
  /\ tx.phase = "logPut"
  /\ latest' = LatestPuts(latest, tx.batch, tx.absent,
                          LatestExisting(latest, tx.batch), 1)
  /\ tx' = [tx EXCEPT !.phase = "latestPut"]
  /\ UNCHANGED <<log, op>>
  /\ UNCHANGED otherThanLog

\* await t.done; return results
StoreCommit ==
  /\ tx.phase = "latestPut"
  /\ op' = [Idle EXCEPT !.name = "storeMessages", !.batch = tx.batch,
                        !.stored = tx.absent, !.prevSingle = tx.prev,
                        !.preLog = tx.snapLog, !.preLatest = tx.snapLatest,
                        !.single =
                          IF Len(tx.batch) = 1
                             /\ tx.batch[1].timestamp \notin DOMAIN tx.snapLog
                            THEN [set |-> TRUE, msg |-> tx.batch[1],
                                  stored |-> tx.absent, latest |-> latest]
                            ELSE NoSingle]
  /\ tx' = NoTx
  /\ UNCHANGED <<log, latest>>
  /\ UNCHANGED otherThanLog

\* the engine aborts the transaction: the stores in its scope are rolled back
\* and the call rejects
StoreAbort ==
  /\ tx.phase \in {"begun", "logPut", "latestPut"}
  /\ log' = IF LogStore \in StoreMessagesScope THEN tx.snapLog ELSE log
  /\ latest' = IF LatestStore \in StoreMessagesScope THEN tx.snapLatest ELSE latest
  /\ op' = [Idle EXCEPT !.name = "storeMessages", !.ok = FALSE,
                        !.preLog = tx.snapLog, !.preLatest = tx.snapLatest,
                        !.wrote = (log # tx.snapLog \/ latest # tx.snapLatest)]
  /\ tx' = NoTx
  /\ UNCHANGED otherThanLog

(***************************************************************************)
(* LocalIndexedDB.queryMessages: a readonly transaction over the log; a    *)
(* cursor over IDBKeyRange.lowerBound(since) in direction 'prev'.          *)
(***************************************************************************)
RECURSIVE CursorPrev(_, _)
CursorPrev(l, keys) ==
  IF keys = {} THEN <<>>
  ELSE LET k == Max(keys) IN <<l[k]>> \o CursorPrev(l, keys \ {k})

queryMessages_exclusive(l, since) == CursorPrev(l, {k \in DOMAIN l : k > since})
queryMessages(l, since) == CursorPrev(l, {k \in DOMAIN l : k >= since})

QueryMessages(since) ==
  /\ CanRun({LogStore})
  /\ op' = [Idle EXCEPT !.name = "queryMessages", !.since = since,
                        !.msgs = queryMessages(log, since),
                        !.preLog = log, !.preLatest = latest,
                        !.comLog = CommittedLog, !.comLatest = CommittedLatest]
  /\ UNCHANGED <<log, latest, tx>>
  /\ UNCHANGED otherThanLog

(***************************************************************************)
(* LocalIndexedDB.queryLatestMessages: a readonly transaction over the     *)
(* latest index; one get per probe, results in the order of the probes.    *)
(***************************************************************************)
queryLatestMessages_dropAbsent(lt, probes) ==
  SelectSeq([i \in 1..Len(probes) |-> StoreGet(lt, latestMessageKey(probes[i]))],
            LAMBDA m : m # Absent)
queryLatestMessages(lt, probes) ==
  [i \in 1..Len(probes) |-> StoreGet(lt, latestMessageKey(probes[i]))]

QueryLatestMessages(probes) ==
  /\ CanRun({LatestStore})
  /\ op' = [Idle EXCEPT !.name = "queryLatestMessages", !.batch = probes,
                        !.msgs = queryLatestMessages(latest, probes),
                        !.preLog = log, !.preLatest = latest,
                        !.comLog = CommittedLog, !.comLatest = CommittedLatest]
  /\ UNCHANGED <<log, latest, tx>>
  /\ UNCHANGED otherThanLog

\* cells whose dataset or row contains ':'
KeyCells ==
  { [dataset |-> "a:b", row |-> "c", column |-> "name"],
    [dataset |-> "a", row |-> "b:c", column |-> "name"],
    [dataset |-> "a", row |-> "b", column |-> "name"] }

KeyMsgs == {Msg(t, c, v) : t \in 1..MaxTs, c \in KeyCells, v \in LogValues}

KeyBatches == {<<m>> : m \in KeyMsgs}

KeyProbes == {<<m>> : m \in {x \in KeyMsgs : x.timestamp = MaxTs}}

\* storeMessages and queryLatestMessages over those cells
KeyNext ==
  \/ \E batch \in KeyBatches : StoreBegin(batch)
  \/ StoreLogPuts
  \/ StoreLatestPuts
  \/ StoreCommit
  \/ \E probes \in KeyProbes : QueryLatestMessages(probes)

LogNext ==
  \/ \E batch \in LogBatches : StoreBegin(batch)
  \/ StoreLogPuts
  \/ StoreLatestPuts
  \/ StoreCommit
  \/ StoreAbort
  \/ \E since \in 0..(MaxTs + 1) : QueryMessages(since)
  \/ \E probes \in Probes : QueryLatestMessages(probes)

(***************************************************************************)
(* LocalIndexedDB.applyChanges and listenChanges.  A listener is a         *)
(* callback identity; #changeListeners is the array of the registered      *)
(* callbacks.  forEach visits the elements the array had when it was       *)
(* called: push() during the loop adds beyond the length forEach read, and *)
(* the unsubscribe function assigns a new (filtered) array.  Between two   *)
(* invocations only code of the listener just invoked runs; it may call    *)
(* listenChanges or an unsubscribe function (a nested applyChanges is not  *)
(* modelled).                                                              *)
(***************************************************************************)
CB == {"cb1", "cb2"}

ApplyCells ==
  { [dataset |-> "people", row |-> "123", column |-> "age"],
    [dataset |-> "spaceship", row |-> "456", column |-> "name"] }

\* the messages handed to applyChanges: the newer message carries value "a"
ApplyMsgs ==
  {Msg(2, c, "a") : c \in ApplyCells} \cup {Msg(1, c, "b") : c \in ApplyCells}

ApplyBatches == SeqsUpTo(ApplyMsgs, MaxBatch)

\* row[msg.column] = msg.value, creating changes[msg.dataset][msg.row] if needed
ConsolidateStep_keepFirst(ch, msg) ==
  LET dataset == IF msg.dataset \in DOMAIN ch THEN ch[msg.dataset] ELSE EmptyFn
      row == IF msg.row \in DOMAIN dataset THEN dataset[msg.row] ELSE EmptyFn
  IN (msg.dataset :> ((msg.row :> (row @@ (msg.column :> msg.value))) @@ dataset)) @@ ch
ConsolidateStep(ch, msg) ==
  LET dataset == IF msg.dataset \in DOMAIN ch THEN ch[msg.dataset] ELSE EmptyFn
      row == IF msg.row \in DOMAIN dataset THEN dataset[msg.row] ELSE EmptyFn
  IN (msg.dataset :> ((msg.row :> ((msg.column :> msg.value) @@ row)) @@ dataset)) @@ ch

RECURSIVE ConsolidateFrom(_, _, _)
ConsolidateFrom(ch, messages, i) ==
  IF i > Len(messages) THEN ch
  ELSE ConsolidateFrom(ConsolidateStep(ch, messages[i]), messages, i + 1)

\* the Changes applyChanges builds from its messages
Consolidate(messages) == ConsolidateFrom(EmptyFn, messages, 1)

\* this.#changeListeners.filter(e => e != cb)
RECURSIVE FilterOut_firstOnly(_, _)
FilterOut_firstOnly(listeners, cb) ==
  IF listeners = <<>> THEN <<>>
  ELSE IF Head(listeners) = cb THEN Tail(listeners)
  ELSE <<Head(listeners)>> \o FilterOut_firstOnly(Tail(listeners), cb)
FilterOut(listeners, cb) == SelectSeq(listeners, LAMBDA e : e # cb)

NoDelivery == [status |-> "idle", arr |-> <<>>, k |-> 0, messages |-> <<>>,
               changes |-> EmptyFn, invoked |-> <<>>, stale |-> {}, failed |-> {}]

NoListenOp == [name |-> "none", cb |-> "", reg |-> 0, again |-> FALSE,
               reReg |-> FALSE, during |-> FALSE, before |-> <<>>, after |-> <<>>]

Running == deliv.status = "running"

\* code outside applyChanges runs, or the listener just invoked runs
MayCall == ~Running \/ deliv.k >= 1

ListenInit ==
  /\ changeListeners = <<>>
  /\ regs = <<>>
  /\ deliv = NoDelivery
  /\ lop = NoListenOp

otherThanListen == <<logVars, projVars, storeVars, metaVars, upVars>>

\* listenChanges(cb): push cb, return its unsubscribe function
ListenChanges(cb) ==
  /\ MayCall
  /\ Len(regs) < MaxRegs
  /\ changeListeners' = Append(changeListeners, cb)
  /\ regs' = Append([r \in 1..Len(regs) |->
                       IF regs[r].cb = cb THEN [regs[r] EXCEPT !.reReg = regs[r].called]
                                          ELSE regs[r]],
                    [cb |-> cb, called |-> FALSE, reReg |-> FALSE])
  /\ lop' = [NoListenOp EXCEPT !.name = "listenChanges", !.cb = cb,
                               !.during = Running,
                               !.before = changeListeners,
                               !.after = Append(changeListeners, cb)]
  /\ deliv' = IF Running THEN deliv ELSE NoDelivery
  /\ UNCHANGED otherThanListen

\* the unsubscribe function of registration r is called
Unsubscribe(r) ==
  /\ MayCall
  /\ r \in 1..Len(regs)
  /\ changeListeners' = FilterOut(changeListeners, regs[r].cb)
  /\ regs' = [regs EXCEPT ![r].called = TRUE, ![r].reReg = FALSE]
  /\ lop' = [NoListenOp EXCEPT !.name = "unsubscribe", !.cb = regs[r].cb, !.reg = r,
                               !.again = regs[r].called,
                               !.reReg = regs[r].reReg,
                               !.during = Running,
                               !.before = changeListeners,
                               !.after = FilterOut(changeListeners, regs[r].cb)]
  /\ deliv' = IF Running THEN deliv ELSE NoDelivery
  /\ UNCHANGED otherThanListen

\* applyChanges(messages) up to the start of forEach
ApplyChanges(messages) ==
  /\ ~Running
  /\ deliv' = [status |-> "running", arr |-> changeListeners, k |-> 0,
               messages |-> messages, changes |-> Consolidate(messages),
               invoked |-> <<>>,
               stale |-> {regs[r].cb : r \in {x \in 1..Len(regs) :
                                                regs[x].called /\ ~regs[x].reReg}},
               failed |-> {}]
  /\ lop' = NoListenOp
  /\ UNCHANGED <<changeListeners, regs>>
  /\ UNCHANGED otherThanListen

\* the listener forEach invokes next
NextListener_reverse(d) == d.arr[Len(d.arr) - d.k]
NextListener(d) == d.arr[d.k + 1]

\* forEach: c(changes) for the next listener, which returns or raises
Invoke(raises) ==
  /\ Running
  /\ deliv.k < Len(deliv.arr)
  /\ deliv' = [deliv EXCEPT
                 !.k = deliv.k + 1,
                 !.invoked = Append(deliv.invoked,
                                    [cb |-> NextListener(deliv), changes |-> deliv.changes]),
                 !.status = IF raises THEN "rejected" ELSE "running",
                 !.failed = IF raises THEN @ \cup {"raised"} ELSE @]
  /\ lop' = NoListenOp
  /\ UNCHANGED <<changeListeners, regs>>
  /\ UNCHANGED otherThanListen

\* forEach: c(changes) for the next listener, an async function (as
\* syncDatasetMem and syncDatasetIndexedDB are): the call returns a promise,
\* which forEach drops, and the work of the listener fails or not
InvokeAsync(fails) ==
  /\ Running
  /\ deliv.k < Len(deliv.arr)
  /\ deliv' = [deliv EXCEPT
                 !.k = deliv.k + 1,
                 !.invoked = Append(deliv.invoked,
                                    [cb |-> NextListener(deliv), changes |-> deliv.changes]),
                 !.failed = IF fails THEN @ \cup {"rejected"} ELSE @]
  /\ lop' = NoListenOp
  /\ UNCHANGED <<changeListeners, regs>>
  /\ UNCHANGED otherThanListen

\* forEach is done; the promise of applyChanges resolves
ApplyReturn ==
  /\ Running
  /\ deliv.k = Len(deliv.arr)
  /\ deliv' = [deliv EXCEPT !.status = "resolved"]
  /\ lop' = NoListenOp
  /\ UNCHANGED <<changeListeners, regs>>
  /\ UNCHANGED otherThanListen

\* listeners come and go; what the messages are does not matter to them
ListenBatches == {<<>>, <<Msg(1, CHOOSE c \in ApplyCells : TRUE, "b")>>}

ListenNext ==
  \/ \E cb \in CB : ListenChanges(cb)
  \/ \E r \in 1..MaxRegs : Unsubscribe(r)
  \/ \E messages \in ListenBatches : ApplyChanges(messages)
  \/ \E raises \in BOOLEAN : Invoke(raises)
  \/ ApplyReturn

\* applyChanges with listeners that return, raise, or are async and fail
NotifyNext ==
  \/ \E cb \in CB : ListenChanges(cb)
  \/ \E messages \in ListenBatches : ApplyChanges(messages)
  \/ \E raises \in BOOLEAN : Invoke(raises)
  \/ \E fails \in BOOLEAN : InvokeAsync(fails)
  \/ ApplyReturn

\* applyChanges over every batch, with listeners registered and none removed
ApplyNext ==
  \/ \E cb \in CB : ListenChanges(cb)
  \/ \E messages \in ApplyBatches : ApplyChanges(messages)
  \/ \E raises \in BOOLEAN : Invoke(raises)
  \/ ApplyReturn

(***************************************************************************)
(* The projectors.  Both are listeners: syncDatasetMem has no await and    *)
(* has changed mem when its invocation returns; syncDatasetIndexedDB opens *)
(* a readwrite transaction over the dataset stores of the Changes, places  *)
(* every store.get(id) at once and the store.put(row) of each row as its   *)
(* get returns.  The dataset stores have keyPath 'id' (store.put(row) is   *)
(* called without a key), so a row is stored under row.id.  Transactions   *)
(* over the same store run one after the other in the order they were      *)
(* created.                                                                *)
(***************************************************************************)
ProjDataset == "people"

\* Object.keys lists integer-like keys in ascending order
ProjRowOrder == <<"123", "456">>

ProjCells ==
  {[dataset |-> ProjDataset, row |-> ProjRowOrder[i], column |-> c] :
     i \in 1..Len(ProjRowOrder), c \in {"id", "name"}}

ProjValues(column) == IF column = "id" THEN Range(ProjRowOrder) ELSE {"Yoda"}

ProjMsgs ==
  UNION {{Msg(1, c, v) : v \in ProjValues(c.column)} : c \in ProjCells}

ProjBatches == SeqsUpTo(ProjMsgs, MaxBatch)

RowsOf(m, dataset) == IF dataset \in DOMAIN m THEN m[dataset] ELSE EmptyFn

\* row = !row ? { id, ...changes[dataset][id] } : { ...row, ...changes[dataset][id] }
MergeRow(rows, id, columns) ==
  IF id \in DOMAIN rows THEN columns @@ rows[id] ELSE columns @@ ("id" :> id)

\* syncDatasetMem, the rows of one dataset: dataset[id] = row for every id
\* of the Changes (each id is read and written once, so the order of the ids
\* makes no difference)
MemSyncRows(rows, changed) ==
  [id \in DOMAIN rows \cup DOMAIN changed |->
     IF id \in DOMAIN changed THEN MergeRow(rows, id, changed[id]) ELSE rows[id]]

\* syncDatasetMem(mem)(changes)
syncDatasetMem(m, changes) ==
  [d \in DOMAIN m \cup DOMAIN changes |->
     IF d \in DOMAIN changes THEN MemSyncRows(RowsOf(m, d), changes[d]) ELSE m[d]]

\* syncDatasetIndexedDB, one store: every row is read before the first put;
\* store.put(row) stores the row under its key path value row.id
RECURSIVE IdbSyncRows(_, _, _, _)
IdbSyncRows(rows, read, changed, i) ==
  IF i > Len(ProjRowOrder) THEN rows
  ELSE LET id == ProjRowOrder[i] IN
       IdbSyncRows(IF id \in DOMAIN changed
                     THEN LET row == MergeRow(read, id, changed[id])
                          IN StorePut(rows, row["id"], row)
                     ELSE rows,
                   read, changed, i + 1)

\* syncDatasetIndexedDB(db)(changes), the effect of its transaction
syncDatasetIndexedDB(stores, changes) ==
  [d \in DOMAIN stores |->
     IF d \in DOMAIN changes THEN IdbSyncRows(stores[d], stores[d], changes[d], 1)
                             ELSE stores[d]]

NoProjOp == [name |-> "none", changes |-> EmptyFn, before |-> EmptyFn]

ProjInit ==
  /\ memRows = EmptyFn
  /\ idbRows = (ProjDataset :> EmptyFn)
  /\ idbQueue = <<>>
  /\ pop = NoProjOp

otherThanProj == <<logVars, listenVars, storeVars, metaVars, upVars>>

\* applyChanges(messages) with both projectors listening: the in-memory one
\* has run when forEach returns, the other has created its transaction
\* (db.transaction([]) raises for Changes that are empty)
Project(messages) ==
  /\ Len(idbQueue) < MaxQueue
  /\ LET changes == Consolidate(messages) IN
       /\ memRows' = syncDatasetMem(memRows, changes)
       /\ idbQueue' = IF DOMAIN changes = {} THEN idbQueue
                                             ELSE Append(idbQueue, changes)
       /\ pop' = [name |-> "syncDatasetMem", changes |-> changes, before |-> memRows]
  /\ UNCHANGED idbRows
  /\ UNCHANGED otherThanProj

\* the oldest transaction of syncDatasetIndexedDB runs and commits
IdbRun ==
  /\ idbQueue # <<>>
  /\ idbRows' = syncDatasetIndexedDB(idbRows, Head(idbQueue))
  /\ idbQueue' = Tail(idbQueue)
  /\ pop' = [name |-> "syncDatasetIndexedDB", changes |-> Head(idbQueue),
             before |-> idbRows]
  /\ UNCHANGED memRows
  /\ UNCHANGED otherThanProj

ProjNext ==
  \/ \E messages \in ProjBatches : Project(messages)
  \/ IdbRun

(***************************************************************************)
(* The store accessors.  mem is the mirror (dataset -> row id -> row),     *)
(* datasetProxies the DatasetProxy cache, rowProxies the <<dataset, id>>   *)
(* of the RowProxy objects a caller holds, sent the batches handed to send *)
(* in order, pending the sends (by position in sent) that have not         *)
(* settled.  sop records the last accessor operation: its name and        *)
(* arguments, what it raised and the state it found.                       *)
(***************************************************************************)
Datasets == {"jedi"}
RowIds == {"yoda"}
Undefined == "undefined"

\* the objects assigned to dataset[id] and the values assigned to row[column]
ColumnValues(column) ==
  IF column = "id" THEN {"yoda", "joda"}
  ELSE IF column = "tombstone" THEN {"true"}
  ELSE {"Yoda", "Luke"}

Columns == {"id", "name", "tombstone"}

RowObjects ==
  UNION {{r \in [cs -> UNION {ColumnValues(c) : c \in cs}] :
            \A c \in cs : r[c] \in ColumnValues(c)} : cs \in SUBSET {"id", "name"}}

\* a value whose typeof is not 'object'
NotAnObject == ("typeof" :> "number")

\* null: its typeof is 'object', and 'id' in null raises a TypeError
Null == ("typeof" :> "null")

Forbidden ==
  {"DBProxy.set", "DBProxy.deleteProperty", "DBProxy.defineProperty",
   "DatasetProxy.defineProperty", "RowProxy.defineProperty"}

\* the promise of the initial sync, which TheStore.new adds to #pending
InitialSync == 0

NoArgs == [dataset |-> "", id |-> "", column |-> "", value |-> EmptyFn]

StoreOp(name, err, args) ==
  [name |-> name, err |-> err, args |-> args, mem |-> mem, sent |-> Len(sent),
   pending |-> pending, emit |-> mem]

\* a write that changes the mirror first and sends afterwards
AtEmission_after(before, after) == after

\* the mirror a write hands its batch over in: store.send(...) is called
\* before the statements that change the row
AtEmission(before, after) == before

NoSettle == [phase |-> "idle", snap |-> {}, sent |-> 0, left |-> {}, result |-> ""]

StoreInit ==
  /\ mem = EmptyFn
  /\ datasetProxies = {}
  /\ rowProxies = {}
  /\ sent = <<>>
  /\ pending = {InitialSync}
  /\ sop = [name |-> "none", err |-> "none", args |-> NoArgs, mem |-> EmptyFn,
            sent |-> 0, pending |-> {InitialSync}, emit |-> EmptyFn]
  /\ applied = {}
  /\ settle = NoSettle
  /\ rejected = {}
  /\ stored = {}
  /\ written = EmptyFn

otherThanStore == <<logVars, listenVars, projVars, metaVars, upVars>>

\* TheStore.send: r = syncDB.send(...); #pending.add(r); r.finally(delete)
send(messages) ==
  /\ sent' = Append(sent, messages)
  /\ pending' = pending \cup {Len(sent) + 1}

\* the promise of a send settles and leaves #pending
SendSettled(i) ==
  /\ i \in pending
  /\ pending' = pending \ {i}
  /\ sop' = StoreOp("settled", "none", NoArgs)
  /\ UNCHANGED <<mem, datasetProxies, rowProxies, sent>>
  /\ UNCHANGED <<applied, rejected, stored, settle, written>>
  /\ UNCHANGED otherThanStore

\* the promise of a send rejects (the durable store has rejected or aborted
\* its transaction) and leaves #pending: r.finally(() => #pending.delete(r))
SendRejected(i) ==
  /\ i \in pending
  /\ pending' = pending \ {i}
  /\ rejected' = rejected \cup {i}
  /\ sop' = StoreOp("rejected", "none", NoArgs)
  /\ UNCHANGED <<mem, datasetProxies, rowProxies, sent>>
  /\ UNCHANGED <<applied, stored, settle, written>>
  /\ UNCHANGED otherThanStore

\* the kinds of the last three writes, the write of this kind included
LastKinds(k, kind) ==
  LET kinds == (IF k \in DOMAIN written THEN written[k].kinds ELSE <<>>) \o <<kind>>
  IN IF Len(kinds) > 3 THEN Tail(kinds) ELSE kinds

\* the row an accessor write of this kind has left in the mirror
Written(m, dataset, id, kind) ==
  IF dataset \in DOMAIN m /\ id \in DOMAIN m[dataset]
    THEN (<<dataset, id>> :> [row |-> m[dataset][id],
                              kinds |-> LastKinds(<<dataset, id>>, kind)]) @@ written
    ELSE written

\* DatasetProxy.#getDataset: the dataset of mem, created empty if missing
getDataset(m, dataset) ==
  IF dataset \in DOMAIN m THEN m ELSE (dataset :> EmptyFn) @@ m

\* a tombstone test that takes the presence of the key for the tombstone
Tombstoned_hasKey(row) == "tombstone" \in DOMAIN row

\* row.tombstone is truthy
Tombstoned(row) == "tombstone" \in DOMAIN row /\ row["tombstone"] # Undefined

\* DatasetProxy.has: row && !row.tombstone
HasRow(m, dataset, id) ==
  /\ dataset \in DOMAIN m
  /\ id \in DOMAIN m[dataset]
  /\ ~Tombstoned(m[dataset][id])

\* DBProxy.get: store.datasetProxy(dataset)
DBProxy_get(dataset) ==
  /\ datasetProxies' = datasetProxies \cup {dataset}
  /\ UNCHANGED rowProxies
  /\ sop' = StoreOp("DBProxy.get", "none",
                  [dataset |-> dataset, id |-> "", column |-> "", value |-> EmptyFn])
  /\ UNCHANGED <<mem, sent, pending>>
  /\ UNCHANGED <<applied, rejected, stored, settle, written>>
  /\ UNCHANGED otherThanStore

\* the traps that raise and do nothing else
Raise(name) ==
  /\ sop' = StoreOp(name, "TypeError", NoArgs)
  /\ UNCHANGED <<mem, datasetProxies, rowProxies, sent, pending>>
  /\ UNCHANGED <<applied, rejected, stored, settle, written>>
  /\ UNCHANGED otherThanStore

\* a set trap that stores instead of raising
DBProxy_set_assign(dataset) ==
  /\ mem' = (dataset :> EmptyFn) @@ mem
  /\ sop' = StoreOp("DBProxy.set", "none", NoArgs)
  /\ UNCHANGED <<datasetProxies, rowProxies, sent, pending>>
  /\ UNCHANGED <<applied, rejected, stored, settle, written>>
  /\ UNCHANGED otherThanStore

DBProxy_set(dataset) == Raise("DBProxy.set")

DBProxy_deleteProperty(dataset) == Raise("DBProxy.deleteProperty")

DBProxy_defineProperty(dataset) == Raise("DBProxy.defineProperty")

DatasetProxy_defineProperty(dataset, id) ==
  /\ dataset \in datasetProxies
  /\ Raise("DatasetProxy.defineProperty")

RowProxy_defineProperty(dataset, id, column) ==
  /\ <<dataset, id>> \in rowProxies
  /\ Raise("RowProxy.defineProperty")

\* DatasetProxy.get: a RowProxy if the row is there and not tombstoned
DatasetProxy_get(dataset, id) ==
  /\ dataset \in datasetProxies
  /\ rowProxies' = IF HasRow(mem, dataset, id)
                     THEN rowProxies \cup {<<dataset, id>>}
                     ELSE rowProxies
  /\ UNCHANGED datasetProxies
  /\ sop' = StoreOp("DatasetProxy.get", "none",
                  [dataset |-> dataset, id |-> id, column |-> "", value |-> EmptyFn])
  /\ UNCHANGED <<mem, sent, pending>>
  /\ UNCHANGED <<applied, rejected, stored, settle, written>>
  /\ UNCHANGED otherThanStore

\* DatasetProxy.ownKeys: lists the rows of #getDataset()
DatasetProxy_ownKeys(dataset) ==
  /\ dataset \in datasetProxies
  /\ mem' = getDataset(mem, dataset)
  /\ sop' = StoreOp("DatasetProxy.ownKeys", "none",
                  [dataset |-> dataset, id |-> "", column |-> "", value |-> EmptyFn])
  /\ UNCHANGED <<datasetProxies, rowProxies, sent, pending>>
  /\ UNCHANGED <<applied, rejected, stored, settle, written>>
  /\ UNCHANGED otherThanStore

ColumnOrder == <<"id", "name", "tombstone">>

\* Object.entries(value): value.id = id adds the id last when value had none
EntriesOrder(value) ==
  IF "id" \in DOMAIN value THEN ColumnOrder
  ELSE SelectSeq(ColumnOrder, LAMBDA c : c # "id") \o <<"id">>

\* a diff that forgets the columns value does not have
RowDiff_noRemoved(dataset, id, existing, given, value) ==
  LET changed == SelectSeq(EntriesOrder(given), LAMBDA c :
                   c \in DOMAIN value /\ ~(c \in DOMAIN existing /\ existing[c] = value[c]))
  IN [i \in 1..Len(changed) |->
        [dataset |-> dataset, row |-> id, column |-> changed[i], value |-> value[changed[i]]]]

\* the messages of DatasetProxy.set: the columns of value that differ from
\* existing, then the columns of existing that value does not have
RowDiff(dataset, id, existing, given, value) ==
  LET changed == SelectSeq(EntriesOrder(given), LAMBDA c :
                   c \in DOMAIN value /\ ~(c \in DOMAIN existing /\ existing[c] = value[c]))
      removed == SelectSeq(ColumnOrder, LAMBDA c :
                   c \in DOMAIN existing /\ c \notin DOMAIN value)
  IN [i \in 1..Len(changed) |->
        [dataset |-> dataset, row |-> id, column |-> changed[i], value |-> value[changed[i]]]]
     \o
     [i \in 1..Len(removed) |->
        [dataset |-> dataset, row |-> id, column |-> removed[i], value |-> Undefined]]

\* an id check that lets every id pass
IdMismatch_never(id, value) == FALSE

\* 'id' in value and id !== value.id
IdMismatch(id, value) == "id" \in DOMAIN value /\ value["id"] # id

\* DatasetProxy.set
DatasetProxy_set(dataset, id, value) ==
  /\ dataset \in datasetProxies
  /\ IF value = NotAnObject
       THEN /\ sop' = StoreOp("DatasetProxy.set", "Error",
                            [dataset |-> dataset, id |-> id, column |-> "", value |-> value])
            /\ UNCHANGED <<mem, sent, pending, written>>
     ELSE IF value = Null
       THEN /\ sop' = StoreOp("DatasetProxy.set", "TypeError",
                            [dataset |-> dataset, id |-> id, column |-> "", value |-> value])
            /\ UNCHANGED <<mem, sent, pending, written>>
     ELSE IF IdMismatch(id, value)
       THEN /\ sop' = StoreOp("DatasetProxy.set", "Error",
                            [dataset |-> dataset, id |-> id, column |-> "", value |-> value])
            /\ UNCHANGED <<mem, sent, pending, written>>
     ELSE /\ LET row == IF "id" \in DOMAIN value THEN value ELSE ("id" :> id) @@ value
                 m == getDataset(mem, dataset)
                 existing == IF id \in DOMAIN m[dataset] THEN m[dataset][id] ELSE EmptyFn
             IN /\ send(RowDiff(dataset, id, existing, value, row))
                /\ mem' = [m EXCEPT ![dataset] = (id :> row) @@ @]
                /\ sop' = [StoreOp("DatasetProxy.set", "none",
                                   [dataset |-> dataset, id |-> id, column |-> "",
                                    value |-> value])
                             EXCEPT !.emit = AtEmission(m, mem')]
          /\ written' = Written(mem', dataset, id, "set")
  /\ UNCHANGED <<datasetProxies, rowProxies>>
  /\ UNCHANGED <<applied, rejected, stored, settle>>
  /\ UNCHANGED otherThanStore

\* a delete that replaces the row by a bare tombstone
Tombstone_replace(rows, id) == (id :> ("tombstone" :> "true")) @@ rows

\* dataset[id].tombstone = true, or dataset[id] = { tombstone: true }
Tombstone(rows, id) ==
  IF id \in DOMAIN rows THEN (id :> (("tombstone" :> "true") @@ rows[id])) @@ rows
                        ELSE (id :> ("tombstone" :> "true")) @@ rows

\* DatasetProxy.deleteProperty
DatasetProxy_deleteProperty(dataset, id) ==
  /\ dataset \in datasetProxies
  /\ send(<<[dataset |-> dataset, row |-> id, column |-> "tombstone", value |-> "true"]>>)
  /\ LET m == getDataset(mem, dataset) IN
       mem' = [m EXCEPT ![dataset] = Tombstone(@, id)]
  /\ sop' = [StoreOp("DatasetProxy.deleteProperty", "none",
                     [dataset |-> dataset, id |-> id, column |-> "", value |-> EmptyFn])
               EXCEPT !.emit = AtEmission(mem, mem')]
  /\ UNCHANGED <<datasetProxies, rowProxies>>
  /\ written' = Written(mem', dataset, id, "delete")
  /\ UNCHANGED <<applied, rejected, stored, settle>>
  /\ UNCHANGED otherThanStore

\* RowProxy.set
RowProxy_set(dataset, id, column, value) ==
  /\ <<dataset, id>> \in rowProxies
  /\ send(<<[dataset |-> dataset, row |-> id, column |-> column, value |-> value]>>)
  /\ LET m == getDataset(mem, dataset)
         row == IF id \in DOMAIN m[dataset] THEN m[dataset][id] ELSE ("id" :> id)
     IN mem' = [m EXCEPT ![dataset] = (id :> ((column :> value) @@ row)) @@ @]
  /\ sop' = [StoreOp("RowProxy.set", "none",
                     [dataset |-> dataset, id |-> id, column |-> column,
                      value |-> (column :> value)])
               EXCEPT !.emit = AtEmission(mem, mem')]
  /\ UNCHANGED <<datasetProxies, rowProxies>>
  /\ written' = Written(mem', dataset, id, "column")
  /\ UNCHANGED <<applied, rejected, stored, settle>>
  /\ UNCHANGED otherThanStore

\* RowProxy.deleteProperty
RowProxy_deleteProperty(dataset, id, column) ==
  /\ <<dataset, id>> \in rowProxies
  /\ send(<<[dataset |-> dataset, row |-> id, column |-> column, value |-> Undefined]>>)
  /\ mem' = IF dataset \in DOMAIN mem /\ id \in DOMAIN mem[dataset]
              THEN [mem EXCEPT ![dataset][id] =
                      [c \in DOMAIN @ \ {column} |-> @[c]]]
              ELSE mem
  /\ sop' = [StoreOp("RowProxy.deleteProperty", "none",
                     [dataset |-> dataset, id |-> id, column |-> column, value |-> EmptyFn])
               EXCEPT !.emit = AtEmission(mem, mem')]
  /\ UNCHANGED <<datasetProxies, rowProxies>>
  /\ written' = Written(mem', dataset, id, "columnDelete")
  /\ UNCHANGED <<applied, rejected, stored, settle>>
  /\ UNCHANGED otherThanStore

\* a send in flight hands its batch to applyChanges, whose first listener is
\* syncDatasetMem(mem); the sends are served in the order they were made
Deliver(i) ==
  /\ i \in 1..Len(sent)
  /\ i \in pending \ applied
  /\ \A j \in 1..(i - 1) : j \in applied \/ j \notin pending
  /\ mem' = syncDatasetMem(mem, Consolidate(sent[i]))
  /\ applied' = applied \cup {i}
  /\ sop' = StoreOp("applyChanges", "none", NoArgs)
  /\ UNCHANGED <<datasetProxies, rowProxies, sent, pending, rejected, stored, settle, written>>
  /\ UNCHANGED otherThanStore

\* Promise.allSettled over a snapshot resolving as soon as one has settled
AllSettled_race(snap) == snap = {} \/ snap \ pending # {}

\* Promise.allSettled(snap): every promise of the snapshot has settled
AllSettled(snap) == snap \cap pending = {}

\* a settle that waits for nothing
Snapshot_empty(p) == {}

\* this.#pending.values() at the time of the call
Snapshot(p) == p

\* what Promise.allSettled(snap) resolves with: the outcome of every promise
AllSettledResults(snap, failed) ==
  [i \in snap |-> IF i \in failed THEN "rejected" ELSE "fulfilled"]

\* what settle() resolves with: the value of the first await is dropped and
\* the function returns nothing
SettleResult(results) == Undefined

\* TheStore.settle is called: Promise.allSettled(this.#pending.values())
SettleCall ==
  /\ settle.phase \in {"idle", "done"}
  /\ settle' = [phase |-> "waiting", snap |-> Snapshot(pending), sent |-> Len(sent),
                left |-> {}, result |-> ""]
  /\ UNCHANGED <<mem, datasetProxies, rowProxies, sent, pending, sop, applied, rejected, stored,
               written>>
  /\ UNCHANGED otherThanStore

\* the first await of settle is over: await this.syncDB.settle()
SettleHook ==
  /\ settle.phase = "waiting"
  /\ AllSettled(settle.snap)
  /\ settle' = [settle EXCEPT !.phase = "hook"]
  /\ UNCHANGED <<mem, datasetProxies, rowProxies, sent, pending, sop, applied, rejected, stored,
               written>>
  /\ UNCHANGED otherThanStore

\* the settle hook of the replication layer is over and settle completes
SettleReturn ==
  /\ settle.phase = "hook"
  /\ settle' = [settle EXCEPT !.phase = "done", !.left = pending,
                               !.result =
                                 SettleResult(AllSettledResults(settle.snap, rejected))]
  /\ UNCHANGED <<mem, datasetProxies, rowProxies, sent, pending, sop, applied, rejected, stored,
               written>>
  /\ UNCHANGED otherThanStore

\* what DBProxy.ownKeys returns: Object.keys(mem)
DBProxy_keys(m) == DOMAIN m

\* DBProxy.has: dataset in mem
DBProxy_has(m, dataset) == dataset \in DOMAIN m

\* what DatasetProxy.ownKeys returns: the ids of the rows without tombstone
DatasetProxy_keys(m, dataset) ==
  {id \in DOMAIN RowsOf(m, dataset) : ~Tombstoned(m[dataset][id])}

\* what DatasetProxy.get returns: a RowProxy or undefined
DatasetProxy_read(m, dataset, id) == IF HasRow(m, dataset, id) THEN "row" ELSE Undefined

\* RowProxy.get: the column of the mirror row, undefined without row or column
RowProxy_get(m, dataset, id, column) ==
  IF dataset \in DOMAIN m /\ id \in DOMAIN m[dataset] /\ column \in DOMAIN m[dataset][id]
    THEN m[dataset][id][column]
    ELSE Undefined

\* an accessor operation while fewer than n batches have been sent
CanSend(n) == Len(sent) < n

StoreNext ==
  \/ \E dataset \in Datasets : DBProxy_get(dataset)
  \/ \E dataset \in Datasets : DBProxy_set(dataset)
  \/ \E dataset \in Datasets : DBProxy_deleteProperty(dataset)
  \/ \E dataset \in Datasets : DBProxy_defineProperty(dataset)
  \/ \E dataset \in Datasets, id \in RowIds : DatasetProxy_get(dataset, id)
  \/ \E dataset \in Datasets : DatasetProxy_ownKeys(dataset)
  \/ \E dataset \in Datasets, id \in RowIds, value \in RowObjects \cup {NotAnObject, Null} :
       CanSend(MaxSends) /\ DatasetProxy_set(dataset, id, value)
  \/ \E dataset \in Datasets, id \in RowIds :
       CanSend(MaxSends) /\ DatasetProxy_deleteProperty(dataset, id)
  \/ \E dataset \in Datasets, id \in RowIds : DatasetProxy_defineProperty(dataset, id)
  \/ \E dataset \in Datasets, id \in RowIds, column \in Columns :
       \E value \in ColumnValues(column) :
         CanSend(MaxSends) /\ RowProxy_set(dataset, id, column, value)
  \/ \E dataset \in Datasets, id \in RowIds, column \in Columns :
       CanSend(MaxSends) /\ RowProxy_deleteProperty(dataset, id, column)
  \/ \E dataset \in Datasets, id \in RowIds, column \in Columns :
       RowProxy_defineProperty(dataset, id, column)
  \/ \E i \in {InitialSync} \cup 1..MaxSends : SendSettled(i)

\* the values the accessor writes of the pipeline use
PipeObjects == {("name" :> "Yoda"), ("name" :> "Luke"), EmptyFn}

\* the accessor writes together with the delivery of the sent batches
PipeNext ==
  \/ \E dataset \in Datasets : DBProxy_get(dataset)
  \/ \E dataset \in Datasets, id \in RowIds : DatasetProxy_get(dataset, id)
  \/ \E dataset \in Datasets, id \in RowIds, value \in PipeObjects :
       CanSend(MaxPipeSends) /\ DatasetProxy_set(dataset, id, value)
  \/ \E dataset \in Datasets, id \in RowIds :
       CanSend(MaxPipeSends) /\ DatasetProxy_deleteProperty(dataset, id)
  \/ \E dataset \in Datasets, id \in RowIds :
       CanSend(MaxPipeSends) /\ RowProxy_set(dataset, id, "name", "Luke")
  \/ \E dataset \in Datasets, id \in RowIds :
       CanSend(MaxPipeSends) /\ RowProxy_deleteProperty(dataset, id, "name")
  \/ \E i \in 1..MaxPipeSends : Deliver(i)

\* settle while accessor writes are made and their sends are served
SettleNext ==
  \/ \E dataset \in Datasets : DBProxy_get(dataset)
  \/ \E dataset \in Datasets, id \in RowIds, value \in PipeObjects :
       CanSend(MaxSends) /\ DatasetProxy_set(dataset, id, value)
  \/ \E i \in 1..MaxSends : Deliver(i)
  \/ \E i \in {InitialSync} \cup 1..MaxSends : SendSettled(i)
  \/ SettleCall
  \/ SettleHook
  \/ SettleReturn

(***************************************************************************)
(* LocalIndexedDB.upgradeDB, called from the upgrade callback of openDB.   *)
(* The database being opened may hold any object stores already: those of  *)
(* the application, and those a previous version of the schema created.    *)
(***************************************************************************)
MetaStore == "message_meta"

\* the internalPrefix given to the constructor
Prefixes == {"", "kombat_"}

\* #messageLogStoreName, #latestMessageStoreName, #messageMetaStoreName
StoreNames(prefix) ==
  [log |-> prefix \o LogStore, latest |-> prefix \o LatestStore,
   meta |-> prefix \o MetaStore]

Collections(prefix) ==
  {StoreNames(prefix).log, StoreNames(prefix).latest, StoreNames(prefix).meta}

\* the object stores a database may hold when it is opened
OpenStoreNames == UNION {Collections(prefix) : prefix \in Prefixes} \cup {"people"}

NoUpgrade == [phase |-> "closed", prefix |-> "", opened |-> {}, before |-> {},
              created |-> <<>>, err |-> "none", runs |-> 0]

UpgradeInit ==
  /\ objectStoreNames = {}
  /\ up = NoUpgrade

otherThanUpgrade == <<logVars, listenVars, projVars, storeVars, metaVars>>

\* db.createObjectStore(name): a ConstraintError if the store exists; an
\* error raised earlier has ended the upgrade
createObjectStore(db, name) ==
  IF db.err # "none" THEN db
  ELSE IF name \in db.names THEN [db EXCEPT !.err = "ConstraintError"]
  ELSE [db EXCEPT !.names = @ \cup {name}, !.created = Append(@, name)]

\* the upgrade of the earlier version: nothing to do when the log exists
upgradeDB_logOnly(names, prefix) ==
  LET db == [names |-> names, created |-> <<>>, err |-> "none"]
      n == StoreNames(prefix)
  IN IF n.log \in names THEN db
     ELSE createObjectStore(createObjectStore(createObjectStore(db, n.log), n.latest),
                            n.meta)

\* LocalIndexedDB.upgradeDB: each store is created unless
\* db.objectStoreNames.contains(name)
upgradeDB(names, prefix) ==
  LET db == [names |-> names, created |-> <<>>, err |-> "none"]
      n == StoreNames(prefix)
      db1 == IF n.log \notin db.names THEN createObjectStore(db, n.log) ELSE db
      db2 == IF db1.err = "none" /\ n.latest \notin db1.names
               THEN createObjectStore(db1, n.latest) ELSE db1
      db3 == IF db2.err = "none" /\ n.meta \notin db2.names
               THEN createObjectStore(db2, n.meta) ELSE db2
  IN db3

\* new LocalIndexedDB(prefix); openDB(...) finds the stores of existing
OpenDB(prefix, existing) ==
  /\ up.phase = "closed"
  /\ objectStoreNames' = existing
  /\ up' = [NoUpgrade EXCEPT !.phase = "upgrading", !.prefix = prefix,
                             !.opened = existing]
  /\ UNCHANGED otherThanUpgrade

\* the upgrade callback calls local.upgradeDB(db)
UpgradeDB ==
  /\ up.phase \in {"upgrading", "upgraded"}
  /\ up.runs < MaxUpgrades
  /\ LET db == upgradeDB(objectStoreNames, up.prefix) IN
       /\ objectStoreNames' = db.names
       /\ up' = [up EXCEPT !.phase = "upgraded", !.before = objectStoreNames,
                           !.created = db.created, !.err = db.err,
                           !.runs = @ + 1]
  /\ UNCHANGED otherThanUpgrade

UpgradeNext ==
  \/ \E prefix \in Prefixes, existing \in SUBSET OpenStoreNames :
       OpenDB(prefix, existing)
  \/ UpgradeDB

(***************************************************************************)
(* LocalIndexedDB.set and get: db.put(message_meta, value, key) and        *)
(* db.get(message_meta, key), each a transaction of its own over the       *)
(* metadata table only, so they run whatever storeMessages is doing.       *)
(***************************************************************************)
MetaKeys == {"last_sync", "merkle"}

MetaValues == {"foo-bar-baz", "qux"}

NoMetaOp == [name |-> "none", key |-> "", value |-> "", result |-> "",
             preMeta |-> EmptyFn, postMeta |-> EmptyFn, wrote |-> FALSE]

MetaInit ==
  /\ meta = EmptyFn
  /\ metaSets = <<>>
  /\ mop = NoMetaOp

otherThanMeta == <<logVars, listenVars, projVars, storeVars, upVars>>

\* a put that keeps the value a key already has
MetaPut_add(store, key, value) ==
  IF key \in DOMAIN store THEN store ELSE (key :> value) @@ store

\* db.put(store, value, key): the value replaces the one the key had
MetaPut(store, key, value) == (key :> value) @@ store

\* db.get(store, key): undefined when the key has no entry
MetaGet(store, key) == IF key \in DOMAIN store THEN store[key] ELSE Undefined

\* LocalIndexedDB.set
Set(key, value) ==
  /\ CanRun({MetaStore})
  /\ meta' = MetaPut(meta, key, value)
  /\ metaSets' = Append(metaSets, <<key, value>>)
  /\ UNCHANGED otherThanMeta
  /\ mop' = [NoMetaOp EXCEPT !.name = "set", !.key = key, !.value = value,
                             !.preMeta = meta, !.postMeta = meta',
                             !.wrote = (log' # log \/ latest' # latest)]

\* LocalIndexedDB.get
Get(key) ==
  /\ CanRun({MetaStore})
  /\ mop' = [NoMetaOp EXCEPT !.name = "get", !.key = key,
                             !.result = MetaGet(meta, key)]
  /\ UNCHANGED <<meta, metaSets>>
  /\ UNCHANGED otherThanMeta

\* the messages stored while the metadata accessors are used
MetaBatches ==
  {<<Msg(t, [dataset |-> "people", row |-> "123", column |-> "name"], "Yoda")>> :
     t \in 1..MaxTs}

CanSet(n) == Len(metaSets) < n

MetaNext ==
  \/ \E key \in MetaKeys, value \in MetaValues : CanSet(MaxMetaSets) /\ Set(key, value)
  \/ \E key \in MetaKeys : Get(key)
  \/ \E batch \in MetaBatches : StoreBegin(batch)
  \/ StoreLogPuts
  \/ StoreLatestPuts
  \/ StoreCommit

(***************************************************************************)
(* TheStore.new: the mirror is loaded from the latest index of the durable *)
(* store, which holds what earlier sessions and remote peers have stored.  *)
(***************************************************************************)
LoadCell(column) == [dataset |-> "jedi", row |-> "yoda", column |-> column]

\* the messages the durable store may hold: a removed column is a message
\* with the value undefined
LoadValues(column) ==
  IF column = "id" THEN {"yoda", "joda"}
  ELSE IF column = "tombstone" THEN {"true"}
  ELSE {"Yoda", Undefined}

LoadMsgs ==
  UNION {{Msg(t, LoadCell(column), v) : t \in 1..MaxTs, v \in LoadValues(column)} :
         column \in Columns}

LoadBatches == {<<m>> : m \in LoadMsgs}

\* the callback of forEach in loadDatasetMem: mem[dataset] and its row, with
\* { id: row }, are created when missing; then r[column] = value
LoadEntry(m, e) ==
  LET d == IF e.dataset \in DOMAIN m THEN m[e.dataset] ELSE EmptyFn
      r == IF e.row \in DOMAIN d THEN d[e.row] ELSE ("id" :> e.row)
  IN (e.dataset :> ((e.row :> ((e.column :> e.value) @@ r)) @@ d)) @@ m

\* forEach over db.getAll(message_latest); the entries are those of distinct
\* keys, so the order in which they are visited does not show in the result
RECURSIVE LoadEntries(_, _, _)
LoadEntries(m, lt, keys) ==
  IF keys = {} THEN m
  ELSE LET k == CHOOSE x \in keys : TRUE
       IN LoadEntries(LoadEntry(m, lt[k]), lt, keys \ {k})

\* loadDatasetMem(mem, idb) on the empty mem of TheStore.new
loadDatasetMem(lt) == LoadEntries(EmptyFn, lt, DOMAIN lt)

\* TheStore.new: mem is loaded, then the initial sync is started and made
\* pending, then the store is returned
TheStore_new ==
  /\ CanRun({LatestStore})
  /\ mem' = loadDatasetMem(latest)
  /\ datasetProxies' = {}
  /\ rowProxies' = {}
  /\ sent' = <<>>
  /\ pending' = {InitialSync}
  /\ applied' = {}
  /\ rejected' = {}
  /\ stored' = {}
  /\ settle' = NoSettle
  /\ written' = EmptyFn
  /\ sop' = [name |-> "TheStore.new", err |-> "none",
             args |-> [NoArgs EXCEPT !.value = latest], mem |-> EmptyFn,
             sent |-> 0, pending |-> {}, emit |-> mem']
  /\ UNCHANGED otherThanStore

\* the durable store is filled and the store is initialised from it
LoadNext ==
  \/ \E batch \in LoadBatches : StoreBegin(batch)
  \/ StoreLogPuts
  \/ StoreLatestPuts
  \/ StoreCommit
  \/ TheStore_new

(***************************************************************************)
(* The send path with the durable store.  The replication layer stamps the *)
(* messages of a send with the timestamps of its clock, which grow from    *)
(* message to message, has storeMessages ingest them and applyChanges      *)
(* deliver them, and then fulfils the promise of the send.                 *)
(***************************************************************************)
\* the number of messages of the first n sends
RECURSIVE SentBefore(_)
SentBefore(n) == IF n = 0 THEN 0 ELSE SentBefore(n - 1) + Len(sent[n])

\* the messages of send i with their timestamps
Stamped(i) ==
  [j \in 1..Len(sent[i]) |->
     [timestamp |-> SentBefore(i - 1) + j, dataset |-> sent[i][j].dataset,
      row |-> sent[i][j].row, column |-> sent[i][j].column,
      value |-> sent[i][j].value]]

\* storeMessages(messages of send i), its transaction committed
Ingest(i) ==
  /\ i \in 1..Len(sent)
  /\ i \in pending \ stored
  /\ \A j \in 1..(i - 1) : j \in stored
  /\ tx.phase = "none"
  /\ LET batch == Stamped(i)
         absent == LogAbsent(log, batch)
     IN /\ log' = LogPuts(log, batch, absent, 1)
        /\ latest' = LatestPuts(latest, batch, absent, LatestExisting(latest, batch), 1)
  /\ stored' = stored \cup {i}
  /\ UNCHANGED <<tx, op>>
  /\ UNCHANGED <<mem, datasetProxies, rowProxies, sent, pending, sop, applied, rejected,
                 settle, written>>
  /\ UNCHANGED <<listenVars, projVars, metaVars, upVars>>

\* the accessor writes with every send ingested, delivered and fulfilled
SyncNext ==
  \/ \E dataset \in Datasets : DBProxy_get(dataset)
  \/ \E dataset \in Datasets, id \in RowIds : DatasetProxy_get(dataset, id)
  \/ \E dataset \in Datasets, id \in RowIds, value \in PipeObjects :
       CanSend(MaxSends) /\ DatasetProxy_set(dataset, id, value)
  \/ \E dataset \in Datasets, id \in RowIds :
       CanSend(MaxSends) /\ DatasetProxy_deleteProperty(dataset, id)
  \/ \E dataset \in Datasets, id \in RowIds :
       CanSend(MaxSends) /\ RowProxy_set(dataset, id, "name", "Luke")
  \/ \E dataset \in Datasets, id \in RowIds :
       CanSend(MaxSends) /\ RowProxy_deleteProperty(dataset, id, "name")
  \/ \E i \in 1..MaxSends : Ingest(i)
  \/ \E i \in 1..MaxSends : i \in stored /\ Deliver(i)
  \/ \E i \in 1..MaxSends : i \in stored /\ i \in applied /\ SendSettled(i)
  \/ SendSettled(InitialSync)
  \/ SettleCall
  \/ SettleHook
  \/ SettleReturn

\* writes to the cell jedi/yoda/name, each send delivered and then fulfilled,
\* and settle
OrderNext ==
  \/ \E dataset \in Datasets : DBProxy_get(dataset)
  \/ \E dataset \in Datasets, id \in RowIds : DatasetProxy_get(dataset, id)
  \/ \E dataset \in Datasets, id \in RowIds, value \in PipeObjects :
       CanSend(MaxPipeSends) /\ DatasetProxy_set(dataset, id, value)
  \/ \E dataset \in Datasets, id \in RowIds :
       CanSend(MaxPipeSends) /\ RowProxy_set(dataset, id, "name", "Luke")
  \/ \E dataset \in Datasets, id \in RowIds :
       CanSend(MaxPipeSends) /\ RowProxy_deleteProperty(dataset, id, "name")
  \/ \E i \in 1..MaxPipeSends : Deliver(i)
  \/ \E i \in 1..MaxPipeSends : i \in applied /\ SendSettled(i)
  \/ SendSettled(InitialSync)
  \/ SettleCall
  \/ SettleHook
  \/ SettleReturn

\* settle while sends fail
FailNext ==
  \/ \E dataset \in Datasets : DBProxy_get(dataset)
  \/ \E dataset \in Datasets, id \in RowIds, value \in PipeObjects :
       CanSend(MaxSends) /\ DatasetProxy_set(dataset, id, value)
  \/ \E i \in {InitialSync} \cup 1..MaxSends : SendSettled(i)
  \/ \E i \in {InitialSync} \cup 1..MaxSends : SendRejected(i)
  \/ SettleCall
  \/ SettleHook
  \/ SettleReturn

Init == LogInit /\ ListenInit /\ ProjInit /\ StoreInit /\ MetaInit /\ UpgradeInit

SpecLog == Init /\ [][LogNext]_vars

SpecKeys == Init /\ [][KeyNext]_vars

SpecListen == Init /\ [][ListenNext]_vars

SpecApply == Init /\ [][ApplyNext]_vars

SpecNotify == Init /\ [][NotifyNext]_vars

SpecProj == Init /\ [][ProjNext]_vars

SpecStore == Init /\ [][StoreNext]_vars

SpecPipe == Init /\ [][PipeNext]_vars

SpecSettle == Init /\ [][SettleNext]_vars

SpecFail == Init /\ [][FailNext]_vars

SpecLoad == Init /\ [][LoadNext]_vars

SpecSync == Init /\ [][SyncNext]_vars

SpecOrder == Init /\ [][OrderNext]_vars

SpecMeta == Init /\ [][MetaNext]_vars

SpecUpgrade == Init /\ [][UpgradeNext]_vars

(***************************************************************************)
(* Properties of the durable store (SpecLog)                               *)
(***************************************************************************)
Committed(o) == o.name = "storeMessages" /\ o.ok

\* the entries of the log whose message carries timestamp t
EntriesWithTs(t) == {k \in DOMAIN log : log[k].timestamp = t}

\* C1: storing a message whose timestamp is new returns [true]; storing it
\* again in the next call returns [false], the log holds exactly one entry
\* with that timestamp and the latest index is as the first call left it.
C1_StoreTwice ==
  Committed(op) =>
    /\ op.single.set =>
         /\ op.stored = <<TRUE>>
         /\ Cardinality(EntriesWithTs(op.single.msg.timestamp)) = 1
    /\ (op.prevSingle.set /\ op.batch = <<op.prevSingle.msg>>) =>
         /\ op.prevSingle.stored = <<TRUE>>
         /\ op.stored = <<FALSE>>
         /\ EntriesWithTs(op.prevSingle.msg.timestamp) = {op.prevSingle.msg.timestamp}
         /\ log[op.prevSingle.msg.timestamp] = op.prevSingle.msg
         /\ latest = op.prevSingle.latest

C1_Witness ==
  /\ Committed(op)
  /\ op.prevSingle.set
  /\ op.batch = <<op.prevSingle.msg>>
  /\ op.stored = <<FALSE>>
  /\ DOMAIN latest # {}

\* the log entries of one cell
EntriesOfCell(c) == {k \in DOMAIN log : CellOf(log[k]) = c}

\* C2: once every storeMessages call has completed, the latest-index entry of
\* every cell is the stored message of that cell with the greatest timestamp.
C2_LatestIsGreatest ==
  tx.phase = "none" =>
    \A c \in LogCells :
      EntriesOfCell(c) # {} =>
        /\ latestMessageKey(c) \in DOMAIN latest
        /\ latest[latestMessageKey(c)] = log[Max(EntriesOfCell(c))]

\* C3: queryMessages(since) returns every log entry with timestamp >= since
\* once and nothing else, strictly descending by timestamp, leaves the log
\* as it was, and returns the whole log when since is the empty string.
C3_QueryMessages ==
  op.name = "queryMessages" =>
    LET r == op.msgs IN
      /\ \A k \in DOMAIN log :
           k >= op.since => Cardinality({i \in 1..Len(r) : r[i] = log[k]}) = 1
      /\ \A i \in 1..Len(r) :
           /\ r[i].timestamp >= op.since
           /\ r[i].timestamp \in DOMAIN log
           /\ log[r[i].timestamp] = r[i]
      /\ \A i, j \in 1..Len(r) : i < j => r[i].timestamp > r[j].timestamp
      /\ op.since = 0 => Len(r) = Cardinality(DOMAIN log)
      /\ log = op.preLog
      /\ latest = op.preLatest

C3_Witness ==
  /\ op.name = "queryMessages"
  /\ Len(op.msgs) >= 1
  /\ Len(op.msgs) < Cardinality(DOMAIN log)

\* the latest-index entries that belong to one cell
LatestOfCell(c) == {latest[k] : k \in {x \in DOMAIN latest : CellOf(latest[x]) = c}}

\* C4: queryLatestMessages(probes) returns one element per probe, in order:
\* the latest-index entry of the probe's cell, or absent when there is none,
\* whatever the probe's timestamp and value; it modifies no collection.
C4_QueryLatest ==
  op.name = "queryLatestMessages" =>
    /\ Len(op.msgs) = Len(op.batch)
    /\ \A i \in 1..Len(op.batch) :
         IF LatestOfCell(CellOf(op.batch[i])) = {}
           THEN i <= Len(op.msgs) /\ op.msgs[i] = Absent
           ELSE i <= Len(op.msgs) /\ LatestOfCell(CellOf(op.batch[i])) = {op.msgs[i]}
    /\ log = op.preLog
    /\ latest = op.preLatest

C4_Witness ==
  /\ op.name = "queryLatestMessages"
  /\ Len(op.batch) = 2
  /\ Len(op.msgs) = 2
  /\ op.msgs[1] = Absent
  /\ op.msgs[2] # Absent
  /\ op.msgs[2].timestamp # op.batch[2].timestamp

\* C5: an aborted storeMessages call fails and leaves the log and the latest
\* index as they were before it; a query never reads a store that holds
\* writes of a batch that is not committed.
C5_AllOrNothing ==
  /\ (op.name = "storeMessages" /\ ~op.ok) =>
       /\ log = op.preLog
       /\ latest = op.preLatest
  /\ op.name = "queryMessages" => op.preLog = op.comLog
  /\ op.name = "queryLatestMessages" => op.preLatest = op.comLatest

C5_Witness ==
  /\ op.name = "storeMessages"
  /\ ~op.ok
  /\ op.wrote

(***************************************************************************)
(* Properties of applyChanges and the listeners (SpecApply, SpecListen)    *)
(***************************************************************************)
CellsIn(ch) ==
  UNION { UNION { {[dataset |-> d, row |-> r, column |-> c] : c \in DOMAIN ch[d][r]}
                  : r \in DOMAIN ch[d] }
          : d \in DOMAIN ch }

LastIndexOf(messages, cell) ==
  Max({i \in 1..Len(messages) : CellOf(messages[i]) = cell})

\* C6: the Changes built by applyChanges(messages) hold exactly the cells of
\* the messages, each with the value of the last message of that cell in
\* array order, whatever the timestamps.
C6_LastInBatchWins ==
  deliv.status # "idle" =>
    /\ CellsIn(deliv.changes) = {CellOf(deliv.messages[i]) : i \in 1..Len(deliv.messages)}
    /\ \A cell \in CellsIn(deliv.changes) :
         deliv.changes[cell.dataset][cell.row][cell.column]
           = deliv.messages[LastIndexOf(deliv.messages, cell)].value
    /\ \A d \in DOMAIN deliv.changes :
         /\ DOMAIN deliv.changes[d] # {}
         /\ \A r \in DOMAIN deliv.changes[d] : DOMAIN deliv.changes[d][r] # {}
    /\ \A i \in 1..Len(deliv.invoked) : deliv.invoked[i].changes = deliv.changes

C6_Witness ==
  /\ deliv.status = "resolved"
  /\ Len(deliv.invoked) >= 1
  /\ Len(deliv.messages) = 2
  /\ CellOf(deliv.messages[1]) = CellOf(deliv.messages[2])
  /\ deliv.messages[1].timestamp > deliv.messages[2].timestamp
  /\ deliv.messages[1].value # deliv.messages[2].value

InvokedCallbacks == [i \in 1..Len(deliv.invoked) |-> deliv.invoked[i].cb]

Finished == deliv.status \in {"resolved", "rejected"}

\* C7 as claimed: when applyChanges is over, every listener registered at the
\* call has been invoked exactly once, in registration order, with the same
\* Changes.
C7_EveryListenerOnce ==
  Finished =>
    /\ InvokedCallbacks = deliv.arr
    /\ \A i \in 1..Len(deliv.invoked) : deliv.invoked[i].changes = deliv.changes

\* C7 amended: the listeners registered at the call are invoked in
\* registration order with the same Changes, each at most once; all of them
\* when applyChanges resolves, and none after the first one that raises, with
\* which applyChanges rejects.
C7_InOrderUntilRaise ==
  deliv.status # "idle" =>
    /\ Len(deliv.invoked) <= Len(deliv.arr)
    /\ InvokedCallbacks = SubSeq(deliv.arr, 1, Len(deliv.invoked))
    /\ \A i \in 1..Len(deliv.invoked) : deliv.invoked[i].changes = deliv.changes
    /\ deliv.status = "resolved" => Len(deliv.invoked) = Len(deliv.arr)
    /\ deliv.status = "rejected" => Len(deliv.invoked) >= 1

C7_Witness ==
  /\ deliv.status = "resolved"
  /\ Len(deliv.invoked) >= 2
  /\ deliv.invoked[1].cb # deliv.invoked[2].cb
  /\ changeListeners # deliv.arr

RECURSIVE Without(_, _)
Without(seq, x) ==
  IF seq = <<>> THEN <<>>
  ELSE IF Head(seq) = x THEN Without(Tail(seq), x)
  ELSE <<Head(seq)>> \o Without(Tail(seq), x)

\* an applyChanges call invokes no callback that was unsubscribed (and not
\* registered again) before the call was made
NoStaleInvoked ==
  deliv.status # "idle" =>
    \A i \in 1..Len(deliv.invoked) : deliv.invoked[i].cb \notin deliv.stale

\* unsubscribing removes the callback and keeps the others in their order
OthersKept ==
  lop.name = "unsubscribe" =>
    /\ lop.cb \notin Range(lop.after)
    /\ lop.after = Without(lop.before, lop.cb)
    /\ changeListeners = lop.after

\* C8 as claimed: an unsubscribed callback is invoked by no later applyChanges
\* call, the other listeners keep their order, and calling the unsubscribe
\* function again changes nothing, whenever it is called.
C8_UnsubscribeAgainChangesNothing ==
  /\ NoStaleInvoked
  /\ OthersKept
  /\ (lop.name = "unsubscribe" /\ lop.again) => lop.after = lop.before

\* C8 amended: as claimed, but calling the unsubscribe function again changes
\* nothing only as long as the callback has not been registered again since
\* the function was last called.
C8_UnsubscribeAgain ==
  /\ NoStaleInvoked
  /\ OthersKept
  /\ (lop.name = "unsubscribe" /\ lop.again /\ ~lop.reReg) => lop.after = lop.before

C8_Witness ==
  /\ lop.name = "unsubscribe"
  /\ lop.again
  /\ ~lop.reReg
  /\ lop.during
  /\ Len(lop.before) >= 1
  /\ lop.after = lop.before

(***************************************************************************)
(* Properties of the projectors (SpecProj)                                 *)
(***************************************************************************)
\* the row a projector must leave for id, given the rows before and the Changes
MergedRow(before, changed, id) ==
  [c \in DOMAIN changed[id] \cup (IF id \in DOMAIN before THEN DOMAIN before[id] ELSE {"id"})
     |-> IF c \in DOMAIN changed[id] THEN changed[id][c]
         ELSE IF id \in DOMAIN before THEN before[id][c] ELSE id]

\* rows after are rows before with the columns of the Changes merged in
MergedInto(before, after, changes) ==
  \A d \in DOMAIN before \cup DOMAIN after \cup DOMAIN changes :
    /\ DOMAIN RowsOf(after, d) = DOMAIN RowsOf(before, d) \cup DOMAIN RowsOf(changes, d)
    /\ \A id \in DOMAIN RowsOf(after, d) :
         IF id \in DOMAIN RowsOf(changes, d)
           THEN /\ RowsOf(after, d)[id] = MergedRow(RowsOf(before, d), changes[d], id)
                /\ id \notin DOMAIN RowsOf(before, d) => RowsOf(after, d)[id]["id"] = id
           ELSE RowsOf(after, d)[id] = RowsOf(before, d)[id]

\* C9: fed the same Changes, the two projectors end with identical rows:
\* each touched row is its previous content with the incoming columns merged
\* in, a new row has id = row id, everything not named is unchanged.
C9_ProjectorsAgree ==
  /\ idbQueue = <<>> => RowsOf(memRows, ProjDataset) = RowsOf(idbRows, ProjDataset)
  /\ pop.name = "syncDatasetMem" => MergedInto(pop.before, memRows, pop.changes)
  /\ pop.name = "syncDatasetIndexedDB" => MergedInto(pop.before, idbRows, pop.changes)

(***************************************************************************)
(* Properties of the store accessors (SpecStore)                           *)
(***************************************************************************)
\* C10: assigning or deleting a dataset on the root, and defining a property
\* descriptor on the root, a dataset or a row, raise a TypeError, emit no
\* message and leave the mirror and the pending set unchanged.
C10_ForbiddenRaises ==
  sop.name \in Forbidden =>
    /\ sop.err = "TypeError"
    /\ mem = sop.mem
    /\ Len(sent) = sop.sent
    /\ pending = sop.pending

C10_Witness ==
  /\ sop.name = "RowProxy.defineProperty"
  /\ sop.err = "TypeError"
  /\ mem # EmptyFn
  /\ pending # {}

\* C11: dataset[rowId] = value is rejected with an error when value is not an
\* object or carries an id other than rowId; a rejected assignment emits no
\* message and leaves the mirror, its set of datasets included, unchanged; an
\* accepted assignment of a value without id stores the row with id = rowId.
C11_RowAssignRejected ==
  sop.name = "DatasetProxy.set" =>
    LET value == sop.args.value
        id == sop.args.id
        bad == \/ value \in {NotAnObject, Null}
               \/ ("id" \in DOMAIN value /\ value["id"] # id)
    IN /\ bad <=> sop.err # "none"
       /\ bad => /\ mem = sop.mem
                 /\ DOMAIN mem = DOMAIN sop.mem
                 /\ Len(sent) = sop.sent
                 /\ pending = sop.pending
       /\ ~bad => /\ Len(sent) = sop.sent + 1
                  /\ mem[sop.args.dataset][id] = (value @@ ("id" :> id))

C11_Witness ==
  /\ sop.name = "DatasetProxy.set"
  /\ sop.err = "Error"
  /\ sop.args.value \in RowObjects
  /\ sop.mem # EmptyFn
  /\ Len(sent) >= 1

\* the row of the mirror m, empty if there is none
RowOr(m, dataset, id) ==
  IF dataset \in DOMAIN m /\ id \in DOMAIN m[dataset] THEN m[dataset][id] ELSE EmptyFn

Accepted(name) == sop.name = name /\ sop.err = "none"

LastBatch == sent[Len(sent)]

\* C12: the batch of dataset[rowId] = new over the mirror row old holds
\* exactly one message (column, new[column]) for every column of new whose
\* value differs from old[column] and one message (column, undefined) for
\* every column of old that new does not have, and nothing for a column that
\* is unchanged.
C12_DiffBatch ==
  Accepted("DatasetProxy.set") =>
    LET dataset == sop.args.dataset
        id == sop.args.id
        old == RowOr(sop.mem, dataset, id)
        new == sop.args.value @@ ("id" :> id)
        expected ==
          {[dataset |-> dataset, row |-> id, column |-> c, value |-> new[c]] :
             c \in {c \in DOMAIN new : ~(c \in DOMAIN old /\ old[c] = new[c])}}
          \cup
          {[dataset |-> dataset, row |-> id, column |-> c, value |-> Undefined] :
             c \in DOMAIN old \ DOMAIN new}
    IN /\ Len(sent) = sop.sent + 1
       /\ Range(LastBatch) = expected
       /\ Len(LastBatch) = Cardinality(expected)

C12_Witness ==
  /\ Accepted("DatasetProxy.set")
  /\ \E i \in 1..Len(LastBatch) : LastBatch[i].value = Undefined
  /\ \E c \in DOMAIN sop.args.value :
       \A i \in 1..Len(LastBatch) : LastBatch[i].column # c

(***************************************************************************)
(* Properties of the accessors while sends are in flight (SpecPipe)        *)
(***************************************************************************)
\* C13: after an accessor write to a row, and until the next one, every read
\* of a column of the row returns what was written, also while the batches
\* of earlier sends are delivered to the in-memory projector.
C13_ReadYourWrite ==
  \A k \in DOMAIN written : \A column \in Columns :
    RowProxy_get(mem, k[1], k[2], column)
      = IF column \in DOMAIN written[k].row THEN written[k].row[column] ELSE Undefined

(***************************************************************************)
(* Properties of the dataset level (SpecStore)                             *)
(***************************************************************************)
\* C14: delete dataset[rowId] emits exactly the message (dataset, rowId,
\* tombstone, true), keeps every other column of an existing row, creates a
\* tombstoned row when there was none, and right afterwards rowId is not
\* enumerated, is not a member and reads as absent.
C14_DeleteRow ==
  Accepted("DatasetProxy.deleteProperty") =>
    LET dataset == sop.args.dataset
        id == sop.args.id
        old == RowOr(sop.mem, dataset, id)
    IN /\ Len(sent) = sop.sent + 1
       /\ LastBatch = <<[dataset |-> dataset, row |-> id, column |-> "tombstone",
                         value |-> "true"]>>
       /\ RowOr(mem, dataset, id) = ("tombstone" :> "true") @@ old
       /\ \A other \in DOMAIN RowsOf(sop.mem, dataset) \ {id} :
            mem[dataset][other] = sop.mem[dataset][other]
       /\ id \notin DatasetProxy_keys(mem, dataset)
       /\ ~HasRow(mem, dataset, id)
       /\ DatasetProxy_read(mem, dataset, id) = Undefined

C14_Witness ==
  /\ Accepted("DatasetProxy.deleteProperty")
  /\ HasRow(sop.mem, sop.args.dataset, sop.args.id)
  /\ "name" \in DOMAIN RowOr(mem, sop.args.dataset, sop.args.id)

\* C15: a row that was deleted and then assigned a value without tombstone
\* is readable and a member of its dataset, with the new columns and no
\* tombstone, at every later point until the next accessor write to it, also
\* while the batches of the earlier write and of the delete are delivered.
C15_DeleteThenRecreate ==
  \A k \in DOMAIN written :
    (/\ Len(written[k].kinds) = 3
     /\ written[k].kinds[1] \in {"set", "column"}
     /\ written[k].kinds[2] = "delete"
     /\ written[k].kinds[3] = "set"
     /\ "tombstone" \notin DOMAIN written[k].row)
    => /\ HasRow(mem, k[1], k[2])
       /\ k[2] \in DatasetProxy_keys(mem, k[1])
       /\ DatasetProxy_read(mem, k[1], k[2]) = "row"
       /\ ~Tombstoned(mem[k[1]][k[2]])
       /\ \A column \in DOMAIN written[k].row :
            RowProxy_get(mem, k[1], k[2], column) = written[k].row[column]

\* the datasets some accessor write has targeted
Targeted == {sent[i][j].dataset : <<i, j>> \in
               {<<i, j>> \in (1..Len(sent)) \X (1..4) : j <= Len(sent[i])}}

ReadOps == {"DBProxy.get", "DatasetProxy.get", "DatasetProxy.ownKeys"}

\* C16: a dataset is a member of the root, and listed when the root is
\* enumerated, exactly when a write has targeted it; reading and enumerating
\* at any level never make a dataset a member.
C16_RootMembership ==
  /\ DBProxy_keys(mem) = Targeted
  /\ \A dataset \in Datasets : DBProxy_has(mem, dataset) <=> dataset \in Targeted
  /\ sop.name \in ReadOps => DBProxy_keys(mem) = DBProxy_keys(sop.mem)

\* the mirror holds a row for the id whose tombstone is not set
MirrorHoldsLive(dataset, id) ==
  /\ dataset \in DOMAIN mem
  /\ id \in DOMAIN mem[dataset]
  /\ \/ "tombstone" \notin DOMAIN mem[dataset][id]
     \/ mem[dataset][id]["tombstone"] # "true"

\* C17: for every dataset and row id, being listed when the dataset is
\* enumerated, being a member of the dataset, reading as a row and the mirror
\* holding a row without tombstone are the same.
C17_DatasetViewsAgree ==
  \A dataset \in Datasets, id \in RowIds :
    /\ id \in DatasetProxy_keys(mem, dataset) <=> MirrorHoldsLive(dataset, id)
    /\ HasRow(mem, dataset, id) <=> MirrorHoldsLive(dataset, id)
    /\ DatasetProxy_read(mem, dataset, id) = "row" <=> MirrorHoldsLive(dataset, id)

C17_Witness ==
  \E dataset \in Datasets, id \in RowIds :
    /\ HasRow(mem, dataset, id)
    /\ "tombstone" \in DOMAIN mem[dataset][id]
    /\ id \in DatasetProxy_keys(mem, dataset)

(***************************************************************************)
(* Properties of settle (SpecSettle)                                       *)
(***************************************************************************)
\* C18: when a settle call completes the pending set is empty, also when
\* accessor writes are issued while settle is waiting.
C18_SettledMeansNothingPending ==
  settle.phase = "done" => settle.left = {}

\* C19: settle does not complete, and does not call the settle hook of the
\* replication layer, before every operation that was pending when it was
\* called (the initial sync included) has finished.
C19_SettleWaitsForSnapshot ==
  LET pendingAtCall == {i \in pending : i = InitialSync \/ i <= settle.sent}
  IN /\ settle.phase # "idle" => pendingAtCall \subseteq settle.snap
     /\ settle.phase \in {"hook", "done"} => pendingAtCall = {}

C19_Witness ==
  /\ settle.phase = "done"
  /\ InitialSync \in settle.snap
  /\ \E i \in 1..Len(sent) : i \in settle.snap

(***************************************************************************)
(* Column removal (SpecPipe)                                               *)
(***************************************************************************)
\* the columns the last accessor write to the row has removed: those of a
\* column delete, and those a row assignment has sent as undefined
RemovedBy(k) ==
  {column \in Columns : column \notin DOMAIN written[k].row}

\* C20: after a column has been removed from a row, by a row assignment that
\* omits it or by a column delete, the mirror row has no key for the column,
\* right away and after the batch (column mapped to undefined) has been
\* delivered to the in-memory projector.
C20_RemovedColumnHasNoKey ==
  \A k \in DOMAIN written :
    (/\ written[k].kinds[Len(written[k].kinds)] \in {"set", "columnDelete"}
     /\ \/ /\ sop.name \in {"DatasetProxy.set", "RowProxy.deleteProperty"}
           /\ sop.err = "none"
           /\ <<sop.args.dataset, sop.args.id>> = k
        \/ \A i \in 1..Len(sent) : i \in applied)
    => \A column \in RemovedBy(k) : column \notin DOMAIN RowOr(mem, k[1], k[2])

(***************************************************************************)
(* The id column of the mirror rows (SpecStore)                            *)
(***************************************************************************)
\* C21: every row held in the mirror carries an id column equal to its row
\* key, whichever accessor operation created or changed the row.
C21_RowsCarryId ==
  \A dataset \in DOMAIN mem :
    \A id \in DOMAIN mem[dataset] :
      /\ "id" \in DOMAIN mem[dataset][id]
      /\ mem[dataset][id]["id"] = id

(***************************************************************************)
(* The metadata accessors (SpecMeta)                                       *)
(***************************************************************************)
\* the completed sets of a key, in order
SetsOf(key) == SelectSeq(metaSets, LAMBDA e : e[1] = key)

\* C22: get(key) returns the value of the most recent completed set of the key
\* and undefined when the key was never set; set(key, value) changes no other
\* metadata key, nor the log, nor the latest index.
C22_MetaGetSet ==
  /\ mop.name = "get" =>
        mop.result = IF SetsOf(mop.key) = <<>> THEN Undefined
                     ELSE SetsOf(mop.key)[Len(SetsOf(mop.key))][2]
  /\ mop.name = "set" =>
        /\ \A key \in MetaKeys \ {mop.key} :
              MetaGet(mop.postMeta, key) = MetaGet(mop.preMeta, key)
        /\ ~mop.wrote

\* a key set twice with different values and then read, the other key set too,
\* while the log holds messages
C22_Witness ==
  /\ mop.name = "get"
  /\ Len(SetsOf(mop.key)) = 2
  /\ SetsOf(mop.key)[1][2] # SetsOf(mop.key)[2][2]
  /\ Len(metaSets) = 3
  /\ log # EmptyFn

(***************************************************************************)
(* Schema setup (SpecUpgrade)                                              *)
(***************************************************************************)
\* C23: upgradeDB run against a database in which any subset of the three
\* collections already exists never creates an existing collection, and
\* afterwards all three exist; a second run changes nothing.
C23_UpgradeIdempotent ==
  up.phase = "upgraded" =>
    /\ up.err = "none"
    /\ \A i \in 1..Len(up.created) :
          /\ up.created[i] \notin up.before
          /\ \A j \in 1..Len(up.created) : up.created[i] = up.created[j] => i = j
    /\ Collections(up.prefix) \subseteq objectStoreNames
    /\ objectStoreNames = up.before \cup Range(up.created)
    /\ up.runs >= 2 => (up.created = <<>> /\ objectStoreNames = up.before)

\* upgradeDB has run twice on a database that was opened holding the message
\* log but not the latest index
C23_Witness ==
  /\ up.phase = "upgraded"
  /\ up.runs = 2
  /\ StoreNames(up.prefix).log \in up.opened
  /\ StoreNames(up.prefix).latest \notin up.opened

(***************************************************************************)
(* A batch against its messages ingested one at a time (SpecLog)           *)
(***************************************************************************)
\* the messages of batch from the i-th on ingested one at a time into st: a
\* message whose timestamp the log holds is skipped and reported false; any
\* other is appended and replaces the latest entry of its cell when that is
\* missing or older
RECURSIVE OneAtATime(_, _, _)
OneAtATime(st, batch, i) ==
  IF i > Len(batch) THEN st
  ELSE LET msg == batch[i]
           key == latestMessageKey(msg)
       IN IF msg.timestamp \in DOMAIN st.log
            THEN OneAtATime([st EXCEPT !.stored = Append(@, FALSE)], batch, i + 1)
            ELSE OneAtATime(
                   [log |-> (msg.timestamp :> msg) @@ st.log,
                    latest |-> IF key \notin DOMAIN st.latest
                                  \/ st.latest[key].timestamp < msg.timestamp
                                 THEN (key :> msg) @@ st.latest
                                 ELSE st.latest,
                    stored |-> Append(st.stored, TRUE)],
                   batch, i + 1)

\* C24: a committed storeMessages(batch) leaves the log and the latest index,
\* and returns the booleans, that ingesting the messages of the batch one at a
\* time in input order does.
C24_BatchIsSequential ==
  Committed(op) =>
    LET r == OneAtATime([log |-> op.preLog, latest |-> op.preLatest, stored |-> <<>>],
                        op.batch, 1)
    IN /\ log = r.log
       /\ latest = r.latest
       /\ op.stored = r.stored

(***************************************************************************)
(* The log only grows (SpecLog)                                            *)
(***************************************************************************)
\* C25: a storeMessages call removes no entry the log held before it and
\* replaces none by a different message, and a message it has reported as
\* stored is the entry of its timestamp, whatever else the batch carries.
C25_LogOnlyGrows ==
  op.name = "storeMessages" =>
    /\ \A k \in DOMAIN op.preLog :
          k \in DOMAIN log /\ log[k] = op.preLog[k]
    /\ op.ok =>
          \A i \in 1..Len(op.batch) :
            op.stored[i] =>
              /\ op.batch[i].timestamp \in DOMAIN log
              /\ log[op.batch[i].timestamp] = op.batch[i]

(***************************************************************************)
(* Emission before the mirror changes (SpecStore)                          *)
(***************************************************************************)
Mutations ==
  {"DatasetProxy.set", "DatasetProxy.deleteProperty", "RowProxy.set",
   "RowProxy.deleteProperty"}

\* the last operation is an accessor mutation that was not rejected
Mutated == sop.name \in Mutations /\ sop.err = "none"

\* C26 as stated: every accessor mutation that is not rejected hands exactly
\* one batch to the send path, and the mirror is then still as the mutation
\* found it.
C26_SendBeforeMirror ==
  Mutated =>
    /\ Len(sent) = sop.sent + 1
    /\ sop.emit = sop.mem

\* C26 amended: every accessor mutation that is not rejected hands exactly one
\* batch to the send path while the mirror still holds the old row; all a row
\* assignment has changed by then is that the dataset, if missing, exists and
\* is empty.
C26_SendBeforeRow ==
  Mutated =>
    /\ Len(sent) = sop.sent + 1
    /\ pending = sop.pending \cup {Len(sent)}
    /\ sop.emit = IF sop.name = "DatasetProxy.set"
                    THEN getDataset(sop.mem, sop.args.dataset)
                    ELSE sop.mem
    /\ RowOr(sop.emit, sop.args.dataset, sop.args.id)
         = RowOr(sop.mem, sop.args.dataset, sop.args.id)

\* a mutation that has changed the row it found
C26_Witness ==
  /\ Mutated
  /\ RowOr(sop.mem, sop.args.dataset, sop.args.id) # EmptyFn
  /\ RowOr(mem, sop.args.dataset, sop.args.id)
       # RowOr(sop.mem, sop.args.dataset, sop.args.id)

(***************************************************************************)
(* Failing listeners (SpecNotify)                                          *)
(***************************************************************************)
\* C27: when a listener has failed while applyChanges notified it, by raising
\* or as an async listener whose promise rejects, the applyChanges call ends
\* rejected.
C27_ListenerFailurePropagates ==
  (Finished /\ deliv.failed # {}) => deliv.status = "rejected"

(***************************************************************************)
(* Failed sends (SpecFail)                                                 *)
(***************************************************************************)
\* C28: when a send that a settle() call waited for has failed, the call does
\* not complete as if nothing had happened: its caller is given the failure.
C28_FailedSendVisible ==
  (settle.phase = "done" /\ \E i \in 1..Len(sent) : i \in settle.snap \cap rejected)
    => settle.result # Undefined

(***************************************************************************)
(* The mirror after initialisation (SpecLoad)                              *)
(***************************************************************************)
\* the latest index TheStore.new has loaded
Loaded == sop.args.value

\* the entries of the loaded index, as cells with their value
LoadedEntries == {Loaded[k] : k \in DOMAIN Loaded}

\* C29: when TheStore.new completes, the mirror holds the value of every
\* entry of the latest index under its dataset, row and column, every row has
\* id equal to its row key, the mirror holds no dataset, row or column without
\* entry (the id of a row aside), and the mirror was loaded when the initial
\* sync was started, before any accessor operation.
C29_MirrorIsLatestIndex ==
  sop.name = "TheStore.new" =>
    /\ \A e \in LoadedEntries :
          /\ e.dataset \in DOMAIN mem
          /\ e.row \in DOMAIN mem[e.dataset]
          /\ e.column \in DOMAIN mem[e.dataset][e.row]
          /\ mem[e.dataset][e.row][e.column] = e.value
    /\ \A dataset \in DOMAIN mem :
          \A id \in DOMAIN mem[dataset] :
            /\ "id" \in DOMAIN mem[dataset][id]
            /\ mem[dataset][id]["id"] = id
            /\ \E e \in LoadedEntries : e.dataset = dataset /\ e.row = id
            /\ \A column \in DOMAIN mem[dataset][id] \ {"id"} :
                  \E e \in LoadedEntries :
                    e.dataset = dataset /\ e.row = id /\ e.column = column
    /\ sop.emit = mem
    /\ pending = {InitialSync}
    /\ sent = <<>>

(***************************************************************************)
(* The mirror against the latest index after settle (SpecSync)             *)
(***************************************************************************)
SyncCells == {LoadCell(column) : column \in Columns \ {"id"}}

\* the value of the latest-index entry of a cell, undefined without entry
IndexValue(lt, c) ==
  IF latestMessageKey(c) \in DOMAIN lt THEN lt[latestMessageKey(c)].value ELSE Undefined

SettledAfterWrites ==
  /\ settle.phase = "done"
  /\ settle.sent = Len(sent)
  /\ pending = {}
  /\ \A i \in 1..Len(sent) : i \in applied

\* C31: when the accessor writes to a cell were issued one after the other,
\* all their sends have completed and settle() has completed, the mirror holds
\* for the cell the value of the last of the writes.
C31_LastWriteWins ==
  \A k \in DOMAIN written :
    SettledAfterWrites =>
      RowProxy_get(mem, k[1], k[2], "name")
        = IF "name" \in DOMAIN written[k].row THEN written[k].row["name"] ELSE Undefined

(***************************************************************************)
(* The keys of the latest index (SpecKeys)                                 *)
(***************************************************************************)
\* C32: two stored messages of different cells never have the same
\* latest-index key, also when dataset, row or column contain ':'; so the
\* entry under the key of a stored message's cell is a message of that cell,
\* and queryLatestMessages returns for a probe a message of the probe's cell
\* only.
C32_KeysDoNotCollide ==
  /\ \A k1, k2 \in DOMAIN log :
        latestMessageKey(log[k1]) = latestMessageKey(log[k2])
          => CellOf(log[k1]) = CellOf(log[k2])
  /\ \A k \in DOMAIN log :
        latestMessageKey(log[k]) \in DOMAIN latest
          => CellOf(latest[latestMessageKey(log[k])]) = CellOf(log[k])
  /\ op.name = "queryLatestMessages" =>
        \A i \in 1..Len(op.msgs) :
          op.msgs[i] # Absent => CellOf(op.msgs[i]) = CellOf(op.batch[i])

====
